---- MODULE Spec2Model ----
(***************************************************************************)
(* A model of packages/tailwindcss-language-server/src/tw.ts: the project  *)
(* registry and router (TW.getProject), project discovery (TW._init), the  *)
(* watch classification (onDidChangeWatchedFiles), the watch-pattern set   *)
(* (TW.filterNewWatchPatterns) and the init/restart lifecycle.             *)
(*                                                                         *)
(* A path is a sequence of segments (<<"w","a","x.html">> is /w/a/x.html). *)
(* A glob pattern is a record [neg, segs]: neg says the pattern text       *)
(* starts with '!', segs are the segments of the rest.                     *)
(***************************************************************************)
EXTENDS Integers, Sequences, FiniteSets, TLC

VARIABLES
  initializeParams, \* this.initializeParams: [base, watch], the workspace root
                    \* (<<>> when the client names none) and the watch backend
                    \* the client and the platform allow
  settings,         \* what settingsCache.getConfiguration() answers now:
                    \* [exclude, configFile]
  fs,               \* the file system
  initPromise,      \* this.initPromise: the attempt it is the promise of, 0
                    \* for undefined
  attempts,         \* the executions of _init, in the order they started
  projects,         \* this.projects: the registry, in Map insertion order
  projectCounter,   \* this.projectCounter
  disposables,      \* this.disposables
  onWatched,        \* the attempt whose onDidChangeWatchedFiles handler the
                    \* connection holds, 0 for none
  onConfig,         \* the same for onDidChangeConfiguration
  backends,         \* the watch subscriptions that are live, [kind, attempt]
  watchPatterns,    \* this.watchPatterns: [kind, attempt]
  watched,          \* this.watched
  requested,        \* the glob patterns asked of the underlying watcher since
                    \* the last dispose(), [pattern, attempt]
  registering,      \* client.register calls of watchPatterns not yet resolved
  callers,          \* the calls of init() so far, as a set: [awaits, restarts,
                    \* done], the attempt whose promise the call awaits, how
                    \* many restarts preceded the call, whether it returned
  restarts,         \* how often restart() has run
  classified,       \* the last run of the watch handler: [seq, handler,
                    \* changes, restart, forwarded]
  document,         \* the document handed to getProject (a path), or <<>>
  routed,           \* the last answer of getProject: an index of projects, or
                    \* NoProject
  registrations,    \* this.registrations: an index of bulk, or 0 (undefined)
  bulk,             \* the bulk capability registrations sent to the client,
                    \* in order: [status, doomed, separators,
                    \* triggerCharacters]
  teardown,         \* what the last dispose() did, in the order it did it
  response          \* the answer to the last custom request

vars == <<initializeParams, settings, fs, initPromise, attempts, projects,
          projectCounter, disposables, onWatched, onConfig, backends,
          watchPatterns, watched, requested, registering, callers, restarts,
          classified, document, routed, registrations, bulk, teardown,
          response>>

\* everything but the registry, the document and the answer of the router
lifecycleVars == <<initializeParams, settings, fs, initPromise, attempts,
                   projectCounter, disposables, onWatched, onConfig, backends,
                   watchPatterns, watched, requested, registering, callers,
                   restarts, classified, registrations, bulk, teardown,
                   response>>

----------------------------------------------------------------------------
(* DocumentSelectorPriority (./projects): lower ordinal, higher authority. *)
USER_CONFIGURED == 0
CONTENT_FILE == 1
CSS_FILE == 2
CONFIG_FILE == 3
CSS_DIRECTORY == 4
CONFIG_DIRECTORY == 5
PACKAGE_DIRECTORY == 6
ROOT_DIRECTORY == 7

\* let matchedPriority: number = Infinity
Infinity == 100

\* getProject's result when neither matchedProject nor fallbackProject is set
NoProject == 0

\* projectConfig.configPath of a project that carries none
NoConfig == <<>>

----------------------------------------------------------------------------
(* minimatch(path, pattern, {dot: true}) on segments.                      *)

\* one path segment against one pattern segment: "*" is any one segment,
\* "*.html" any segment with that extension, an escaped bracket segment is
\* the literal text, an unescaped [id] is a character class
SegMatch(p, s) ==
  CASE p = "*" -> TRUE
    [] p = "*.html" -> s \in {"f.html", "index.html", "unrelated.html"}
    [] p = "\\[id\\]" -> s = "[id]"
    [] p = "[id]" -> s \in {"i", "d"}
    [] OTHER -> p = s

Tail2(s, k) == SubSeq(s, k + 1, Len(s))

\* minimatch's matchOne: a trailing ** swallows the (non-empty) rest, a **
\* elsewhere swallows zero or more segments and leaves at least one
RECURSIVE MatchOne(_, _)
MatchOne(file, pat) ==
  IF pat = <<>> THEN file = <<>>
  ELSE IF file = <<>> THEN FALSE
  ELSE IF Head(pat) = "**"
    THEN IF Len(pat) = 1 THEN TRUE
         ELSE \E k \in 0..(Len(file) - 1) : MatchOne(Tail2(file, k), Tail(pat))
    ELSE SegMatch(Head(pat), Head(file)) /\ MatchOne(Tail(file), Tail(pat))

\* minimatch proper: a pattern text that starts with '!' is a negation, it
\* matches exactly the paths its body does not match
Minimatch(file, pattern) ==
  IF pattern.neg THEN ~MatchOne(file, pattern.segs) ELSE MatchOne(file, pattern.segs)

\* selector.pattern.replace(/[\[\]{}]/g, (m) => `\\${m}`)
EscapeSeg(s) == IF s = "[id]" THEN "\\[id\\]" ELSE s

Escape(pattern) ==
  [neg |-> pattern.neg, segs |-> [i \in 1..Len(pattern.segs) |-> EscapeSeg(pattern.segs[i])]]

\* pattern.slice(1) of a pattern that starts with '!'
Slice1(pattern) == [neg |-> FALSE, segs |-> pattern.segs]

----------------------------------------------------------------------------
(* TW.getProject                                                           *)

IsNeg(s) == s.pattern.neg

\* .concat().sort(...): the negated patterns moved to the front, stably
NegFirst(sels) ==
  SelectSeq(sels, IsNeg) \o SelectSeq(sels, LAMBDA s : ~IsNeg(s))

\* the selector loop of one project; m = [project, priority] is
\* (matchedProject, matchedPriority) on entry, the result is their value at
\* the loop's end or at its break
RECURSIVE ScanSelectors(_, _, _, _)
ScanSelectors(sels, doc, idx, m) ==
  IF sels = <<>> THEN m
  ELSE LET selector == Head(sels)
           pattern == Escape(selector.pattern)
       IN IF pattern.neg /\ Minimatch(doc, Slice1(pattern))
            THEN m
            ELSE IF Minimatch(doc, pattern) /\ selector.priority < m.priority
              THEN ScanSelectors(Tail(sels), doc, idx,
                                 [project |-> idx, priority |-> selector.priority])
              ELSE ScanSelectors(Tail(sels), doc, idx, m)

\* the loop over this.projects from project number idx on; fb is
\* fallbackProject
RECURSIVE ScanProjects(_, _, _, _, _)
ScanProjects(reg, doc, idx, m, fb) ==
  IF idx > Len(reg)
    THEN IF m.project # NoProject THEN m.project ELSE fb
    ELSE IF reg[idx].configPath # NoConfig
      THEN ScanProjects(reg, doc, idx + 1,
                        ScanSelectors(NegFirst(reg[idx].documentSelector), doc, idx, m), fb)
      ELSE ScanProjects(reg, doc, idx + 1, m, IF fb = NoProject THEN idx ELSE fb)

getProject(reg, doc) ==
  ScanProjects(reg, doc, 1, [project |-> NoProject, priority |-> Infinity], NoProject)

----------------------------------------------------------------------------
(* Paths                                                                   *)

\* path.dirname
Dirname(p) == IF p = <<>> THEN <<>> ELSE SubSeq(p, 1, Len(p) - 1)

Basename(p) == p[Len(p)]

\* path.resolve(base, rel) for a relative rel: "." is dropped and ".."
\* climbs (normalizePath changes nothing on a POSIX path without a
\* trailing slash)
RECURSIVE Resolve(_, _)
Resolve(base, rel) ==
  IF rel = <<>> THEN base
  ELSE IF Head(rel) = "." THEN Resolve(base, Tail(rel))
  ELSE IF Head(rel) = ".." THEN Resolve(Dirname(base), Tail(rel))
  ELSE Resolve(Append(base, Head(rel)), Tail(rel))

Pat(neg, segs) == [neg |-> neg, segs |-> segs]
Sel(neg, segs, priority) == [pattern |-> Pat(neg, segs), priority |-> priority]

\* minimatch(normalizedFilename, `**/${CSS_GLOB}`, { dot: true })
IsCssFile(p) == Basename(p) \in {"app.css"}

\* minimatch(normalizedFilename, `**/${CONFIG_GLOB}`, { dot: true })
IsConfigFile(p) == Basename(p) \in {"tailwind.config.js", "tailwind.config.ts"}

\* minimatch(normalizedFilename, `**/${PACKAGE_LOCK_GLOB}`, { dot: true })
IsPackageFile(p) == Basename(p) \in {"package-lock.json"}

\* configPath.endsWith('.ts') || configPath.endsWith('.mjs')
IsTsOrMjs(p) == Basename(p) \in {"tailwind.config.ts"}

----------------------------------------------------------------------------
(* The file system, as _init and the watch handler read it:                *)
(*   files     the configuration files and stylesheets that exist          *)
(*   pkgs      the directories that hold a package.json                    *)
(*   directive stylesheet -> the text of its @config directive (a relative *)
(*             path), <<>> without one, Unreadable when the read fails     *)
(*   tw        directory -> the version of the tailwindcss that resolves   *)
(*             from it, Unresolved when none does                          *)
(*   content   configuration -> [ok, relative, items]: whether require()   *)
(*             loads it, its relative-content switch, its string content   *)
(*             globs [neg, segs]                                           *)

\* semver: versions are ordered as their numbers, 3.1.0 < 3.2.0 < 3.3.0
V310 == 310
V320 == 320
V330 == 330

\* require('tailwindcss/package.json').version of the bundled tailwindcss
BundledVersion == V330

\* resolveFrom(...) throws
Unresolved == 0

\* fs.promises.readFile rejects
Unreadable == <<"EACCES">>

\* semver.gte
Gte(v, w) == v >= w

\* lines 249-257: [twVersion, isDefaultVersion] for a configuration path
ResolveVersion(f, configPath) ==
  LET v == f.tw[Dirname(configPath)]
  IN IF v # Unresolved
       THEN [twVersion |-> v, isDefaultVersion |-> FALSE]
       ELSE [twVersion |-> BundledVersion, isDefaultVersion |-> TRUE]

\* getConfigFileFromCssFile, the read having succeeded: null is NoConfig
getConfigFileFromCssFile(f, cssFile) ==
  IF f.directive[cssFile] = <<>> THEN NoConfig
  ELSE Resolve(Dirname(cssFile), f.directive[cssFile])

\* getPackageRoot: the nearest directory from cwd up that holds a
\* package.json, the search stopping at rootDir
RECURSIVE getPackageRoot(_, _, _)
getPackageRoot(f, cwd, rootDir) ==
  IF cwd \in f.pkgs THEN cwd
  ELSE IF cwd = rootDir \/ cwd = <<>> THEN rootDir
  ELSE getPackageRoot(f, Dirname(cwd), rootDir)

\* getContentDocumentSelectorFromConfigFile, with the catch of its caller:
\* a configuration that does not load gives no content selector
getContentDocumentSelectorFromConfigFile(f, configPath, tailwindVersion, rootDir) ==
  LET config == f.content[configPath]
      relativeEnabled == IF Gte(tailwindVersion, V320) THEN config.relative ELSE FALSE
      contentBase == IF relativeEnabled THEN Dirname(configPath)
                     ELSE getPackageRoot(f, Dirname(configPath), rootDir)
  IN IF ~config.ok THEN <<>>
     ELSE [i \in 1..Len(config.items) |->
             Sel(config.items[i].neg, Resolve(contentBase, config.items[i].segs),
                 CONTENT_FILE)]

\* FileSelectors without the selector of the package root
FileSelectors_NoPackageRoot(f, filename, configPath, twVersion, base) ==
  LET isCssFile == IsCssFile(filename)
  IN <<Sel(FALSE, filename, IF isCssFile THEN CSS_FILE ELSE CONFIG_FILE)>>
     \o (IF isCssFile THEN <<Sel(FALSE, configPath, CONFIG_FILE)>> ELSE <<>>)
     \o getContentDocumentSelectorFromConfigFile(f, configPath, twVersion, base)
     \o <<Sel(FALSE, Append(Dirname(filename), "**"),
              IF isCssFile THEN CSS_DIRECTORY ELSE CONFIG_DIRECTORY)>>
     \o (IF isCssFile
           THEN <<Sel(FALSE, Append(Dirname(configPath), "**"), CONFIG_DIRECTORY)>>
           ELSE <<>>)

\* lines 277-311: the selectors one triggering file contributes
FileSelectors(f, filename, configPath, twVersion, base) ==
  LET isCssFile == IsCssFile(filename)
  IN <<Sel(FALSE, filename, IF isCssFile THEN CSS_FILE ELSE CONFIG_FILE)>>
     \o (IF isCssFile THEN <<Sel(FALSE, configPath, CONFIG_FILE)>> ELSE <<>>)
     \o getContentDocumentSelectorFromConfigFile(f, configPath, twVersion, base)
     \o <<Sel(FALSE, Append(Dirname(filename), "**"),
              IF isCssFile THEN CSS_DIRECTORY ELSE CONFIG_DIRECTORY)>>
     \o (IF isCssFile
           THEN <<Sel(FALSE, Append(Dirname(configPath), "**"), CONFIG_DIRECTORY)>>
           ELSE <<>>)
     \o <<Sel(FALSE, Append(getPackageRoot(f, Dirname(configPath), base), "**"),
              PACKAGE_DIRECTORY)>>

\* index of configPath among the keys of the projects object, 0 if absent
KeyIndex(projs, configPath) ==
  IF \E i \in 1..Len(projs) : projs[i].configPath = configPath
    THEN CHOOSE i \in 1..Len(projs) : projs[i].configPath = configPath
    ELSE 0

\* one turn of the loop over the files of the glob (lines 241-318); acc is
\* [projects, versions, cssFiles, failed]: the projects object in key order,
\* configTailwindVersionMap and cssFileConfigMap as sets of pairs, and
\* whether a read has thrown out of the loop
ScanFile(f, acc, filename, base) ==
  LET isCssFile == IsCssFile(filename)
      configPath == IF isCssFile THEN getConfigFileFromCssFile(f, filename) ELSE filename
      rv == ResolveVersion(f, configPath)
      k == KeyIndex(acc.projects, configPath)
      ds == FileSelectors(f, filename, configPath, rv.twVersion, base)
  IN IF acc.failed THEN acc
     ELSE IF isCssFile /\ f.directive[filename] = Unreadable
       THEN [acc EXCEPT !.failed = TRUE]
     ELSE IF configPath = NoConfig THEN acc
     ELSE IF isCssFile /\ (~Gte(rv.twVersion, V320) \/ rv.isDefaultVersion) THEN acc
     ELSE IF IsTsOrMjs(configPath) /\ ~Gte(rv.twVersion, V330) THEN acc
     ELSE [ projects |->
              IF k = 0
                THEN Append(acc.projects, [configPath |-> configPath, documentSelector |-> ds])
                ELSE [acc.projects EXCEPT ![k].documentSelector = @ \o ds],
            versions |->
              {e \in acc.versions : e[1] # configPath} \cup {<<configPath, rv.twVersion>>},
            cssFiles |->
              IF isCssFile
                THEN {e \in acc.cssFiles : e[1] # filename} \cup {<<filename, configPath>>}
                ELSE acc.cssFiles,
            failed |-> FALSE ]

RECURSIVE ScanFiles(_, _, _, _)
ScanFiles(f, acc, files, base) ==
  IF files = <<>> THEN acc
  ELSE ScanFiles(f, ScanFile(f, acc, Head(files), base), Tail(files), base)

Priorities == USER_CONFIGURED..ROOT_DIRECTORY

\* documentSelector.sort((a, z) => a.priority - z.priority), a stable sort
RECURSIVE SortFrom(_, _)
SortFrom(sels, p) ==
  IF p > ROOT_DIRECTORY THEN <<>>
  ELSE SelectSeq(sels, LAMBDA s : s.priority = p) \o SortFrom(sels, p + 1)

SortByPriority(sels) == SortFrom(sels, USER_CONFIGURED)

\* .filter(({pattern}, index, all) => all.findIndex(p same) === index)
RECURSIVE DedupeFrom(_, _)
DedupeFrom(sels, i) ==
  IF i > Len(sels) THEN <<>>
  ELSE (IF \E j \in 1..(i - 1) : sels[j].pattern = sels[i].pattern
          THEN <<>> ELSE <<sels[i]>>)
       \o DedupeFrom(sels, i + 1)

DedupeByPattern(sels) == DedupeFrom(sels, 1)

\* AutoFolders without the test "projectCount === 1": the first project
\* always gets the catch-all
AutoFolders_AlwaysCatchAll(projs, base) ==
  LET withRoot ==
        IF Len(projs) >= 1
          THEN [projs EXCEPT ![1].documentSelector =
                  Append(@, Sel(FALSE, Append(base, "**"), ROOT_DIRECTORY))]
          ELSE projs
  IN [i \in 1..Len(withRoot) |->
        [ configPath |-> withRoot[i].configPath,
          isUserConfigured |-> FALSE,
          documentSelector |->
            DedupeByPattern(SortByPriority(withRoot[i].documentSelector)) ]]

\* lines 320-343: the catch-all of a sole project, then sort and dedupe
AutoFolders(projs, base) ==
  LET withRoot ==
        IF Len(projs) = 1
          THEN [projs EXCEPT ![1].documentSelector =
                  Append(@, Sel(FALSE, Append(base, "**"), ROOT_DIRECTORY))]
          ELSE projs
  IN [i \in 1..Len(withRoot) |->
        [ configPath |-> withRoot[i].configPath,
          isUserConfigured |-> FALSE,
          documentSelector |->
            DedupeByPattern(SortByPriority(withRoot[i].documentSelector)) ]]

EmptyScan == [projects |-> <<>>, versions |-> {}, cssFiles |-> {}, failed |-> FALSE]

----------------------------------------------------------------------------
(* Explicit mode: tailwindCSS.experimental.configFile                      *)
(*   [kind |-> "none"]    unset (falsy)                                    *)
(*   [kind |-> "string"]  one configuration path, entries[1].key           *)
(*   [kind |-> "map"]     entries in key order, each [key, value] with     *)
(*                        value = [type, items], type "string", "array"    *)
(*                        or "number"; an item is [str, segs], str FALSE   *)
(*                        for an array element that is no string           *)
(*   [kind |-> "other"]   a truthy value that is no string and no object   *)

\* ValidValue without its last line: whatever is no array passes
ValidValue_NoTypeCheck(value) ==
  IF value.type = "array"
    THEN \A j \in 1..Len(value.items) : value.items[j].str
    ELSE TRUE

\* the callback of Object.entries(configFileOrFiles).every (lines 198-204)
ValidValue(value) ==
  IF value.type = "array"
    THEN \A j \in 1..Len(value.items) : value.items[j].str
    ELSE value.type = "string"

\* the negation of the condition of lines 195-205
ValidConfigFile(cf) ==
  \/ cf.kind = "string"
  \/ cf.kind = "map" /\ \A e \in 1..Len(cf.entries) : ValidValue(cf.entries[e].value)

\* lines 210-227: one descriptor per entry, neither sorted nor deduplicated
ExplicitFolders(cf, base, userDefinedConfigBase) ==
  IF cf.kind = "string"
    THEN << [ configPath |-> Resolve(userDefinedConfigBase, cf.entries[1].key),
              isUserConfigured |-> TRUE,
              documentSelector |-> <<Sel(FALSE, Append(base, "**"), USER_CONFIGURED)>> ] >>
    ELSE [e \in 1..Len(cf.entries) |->
            [ configPath |-> Resolve(userDefinedConfigBase, cf.entries[e].key),
              isUserConfigured |-> TRUE,
              documentSelector |->
                [j \in 1..Len(cf.entries[e].value.items) |->
                   Sel(FALSE, Resolve(userDefinedConfigBase, cf.entries[e].value.items[j].segs),
                       USER_CONFIGURED)] ]]

----------------------------------------------------------------------------
(* The state machine.  An attempt is one execution of _init:               *)
(*   pc       where it is suspended: "settings" (line 182), "glob" (lines  *)
(*            231-244), "watch" (lines 446, 479, 514), "projects" (line    *)
(*            550), or "done"                                              *)
(*   outcome  "running", or how it ended: "noBase" (line 176), "invalid"   *)
(*            (line 207), "rejected" (a read threw), "ok"                  *)
(*   ignore, exclude, folders, versions, cssFiles   its locals ignore,     *)
(*            globalSettings...exclude, workspaceFolders,                  *)
(*            configTailwindVersionMap, cssFileConfigMap                   *)
(*   creating the addProject calls awaiting createProjectService           *)
(*   superseded  whether restart() ran while the attempt was in flight     *)
(*   resolved, seen   what the attempt found when it built its descriptors: *)
(*            the version each descriptor's configuration resolved to, and  *)
(*            the @config directive of each stylesheet the loop read        *)

MaxAttempts == 2
MaxWatched == 2

Base == <<"w">>
CfgA == <<"w", "a", "tailwind.config.js">>
CfgB == <<"w", "b", "tailwind.config.ts">>
CssA == <<"w", "a", "app.css">>
LockFile == <<"w", "package-lock.json">>
Dirs == {<<"w">>, <<"w", "a">>, <<"w", "b">>}

NoOp == [kind |-> "noop", attempt |-> 0]
NoState == [loaded |-> FALSE, enabled |-> FALSE]
\* no project key: the keys count from zero
NoKey == 0 - 1
NoResponse ==
  [ method |-> "none", document |-> <<>>, key |-> NoKey, enabled |-> FALSE,
    state |-> NoState, throws |-> FALSE, result |-> "none", from |-> NoKey ]
Unclassified ==
  [seq |-> 0, handler |-> 0, changes |-> <<>>, outcome |-> "none", forwarded |-> <<>>]

NewAttempt ==
  [ pc |-> IF initializeParams.base = <<>> THEN "done" ELSE "settings",
    outcome |-> IF initializeParams.base = <<>> THEN "noBase" ELSE "running",
    ignore |-> <<>>, exclude |-> <<>>, folders |-> <<>>,
    versions |-> {}, cssFiles |-> {}, creating |-> {}, superseded |-> FALSE,
    resolved |-> {}, seen |-> {} ]

\* minimatch(normalizedFilename, ignorePattern, { dot: true }) for some
\* pattern of the exclude list; the glob's ignore option does the same
Ignored(file, ignore) ==
  \E k \in 1..Len(ignore) : Minimatch(file, Pat(FALSE, ignore[k]))

\* the three globs every backend starts with
InitialGlobs == <<"**/CONFIG_GLOB", "**/PACKAGE_LOCK_GLOB", "**/CSS_GLOB">>

Requests(patterns, i) ==
  [k \in 1..Len(patterns) |-> [pattern |-> patterns[k], attempt |-> i]]

InitState ==
  /\ initPromise = 0
  /\ attempts = <<>>
  /\ projectCounter = 0
  /\ disposables = <<>>
  /\ onWatched = 0
  /\ onConfig = 0
  /\ backends = {}
  /\ watchPatterns = NoOp
  /\ watched = <<>>
  /\ requested = <<>>
  /\ registering = 0
  /\ callers = {}
  /\ restarts = 0
  /\ classified = Unclassified
  /\ document = <<>>
  /\ routed = NoProject
  /\ registrations = 0
  /\ bulk = <<>>
  /\ teardown = <<>>
  /\ response = NoResponse

\* init without its test of this.initPromise: every call starts _init
init_AlwaysStarts ==
  /\ Len(attempts) < MaxAttempts
  /\ attempts' = Append(attempts, NewAttempt)
  /\ initPromise' = Len(attempts) + 1
  /\ callers' = callers \cup {[awaits |-> initPromise', restarts |-> restarts,
                                 done |-> FALSE]}
  /\ UNCHANGED <<initializeParams, settings, fs, projects, projectCounter,
                 disposables, onWatched, onConfig, backends, watchPatterns,
                 watched, requested, registering, restarts, classified,
                 document, routed,
                                 registrations, bulk, teardown, response>>

\* TW.init, called by onInitialized and by every protocol handler
init ==
  /\ IF initPromise = 0
       THEN /\ Len(attempts) < MaxAttempts
            /\ attempts' = Append(attempts, NewAttempt)
            /\ initPromise' = Len(attempts) + 1
       ELSE UNCHANGED <<attempts, initPromise>>
  /\ callers' = callers \cup {[awaits |-> initPromise', restarts |-> restarts,
                                 done |-> FALSE]}
  /\ UNCHANGED <<initializeParams, settings, fs, projects, projectCounter,
                 disposables, onWatched, onConfig, backends, watchPatterns,
                 watched, requested, registering, restarts, classified,
                 document, routed,
                                 registrations, bulk, teardown, response>>

\* line 853: the client's initialized notification, the first call of init
onInitialized ==
  /\ initPromise = 0
  /\ callers = {}
  /\ init

\* await this.initPromise returns (or throws) in a caller of init
initReturns(c) ==
  /\ ~c.done
  /\ attempts[c.awaits].pc = "done"
  /\ callers' = (callers \ {c}) \cup {[c EXCEPT !.done = TRUE]}
  /\ UNCHANGED <<initializeParams, settings, fs, initPromise, attempts, projects,
                 projectCounter, disposables, onWatched, onConfig, backends,
                 watchPatterns, watched, requested, registering, restarts,
                 classified, document, routed,
                                 registrations, bulk, teardown, response>>

\* lines 428-455, 472-491, 498-516: the backend of attempt i is started, up
\* to the await; att is the attempt's record at that point
StartBackend(i, att) ==
  /\ attempts' = [attempts EXCEPT ![i] = [att EXCEPT !.pc = "watch"]]
  /\ backends' = backends \cup {[kind |-> initializeParams.watch, attempt |-> i]}
  /\ IF initializeParams.watch = "client"
       THEN /\ disposables' = Append(disposables, [kind |-> "fileHandler", attempt |-> i])
            /\ onWatched' = i
       ELSE UNCHANGED <<disposables, onWatched>>
  /\ requested' = IF initializeParams.watch = "parcel" THEN requested
                  ELSE requested \o Requests(InitialGlobs, i)
  /\ UNCHANGED <<initializeParams, settings, fs, initPromise, projects,
                 projectCounter, onConfig, watchPatterns, watched, registering,
                 callers, restarts, classified, document, routed,
                                 registrations, bulk, teardown, response>>

\* the version each descriptor's configuration resolves to
Resolved(f, folders) ==
  { <<folders[k].configPath, ResolveVersion(f, folders[k].configPath).twVersion>> :
      k \in 1..Len(folders) }

\* an attempt ends without a backend and without a project
Finish(i, att, outcome) ==
  /\ attempts' = [attempts EXCEPT ![i] = [att EXCEPT !.pc = "done", !.outcome = outcome]]
  /\ UNCHANGED <<initializeParams, settings, fs, initPromise, projects,
                 projectCounter, disposables, onWatched, onConfig, backends,
                 watchPatterns, watched, requested, registering, callers,
                 restarts, classified, document, routed,
                                 registrations, bulk, teardown, response>>

\* lines 182-228: the settings arrive; explicit mode validates and builds
\* its descriptors, automatic mode goes on to the glob
settingsFetched(i) ==
  /\ attempts[i].pc = "settings"
  /\ LET cf == settings.configFile
         att == [attempts[i] EXCEPT !.ignore = settings.exclude,
                                    !.exclude = settings.exclude]
     IN IF cf.kind # "none"
          THEN IF ~ValidConfigFile(cf)
                 THEN Finish(i, att, "invalid")
                 ELSE LET folders == ExplicitFolders(cf, initializeParams.base,
                                                     initializeParams.base)
                      IN StartBackend(i, [att EXCEPT !.folders = folders,
                                                     !.resolved = Resolved(fs, folders)])
          ELSE /\ attempts' = [attempts EXCEPT ![i] = [att EXCEPT !.pc = "glob"]]
               /\ UNCHANGED <<initializeParams, settings, fs, initPromise, projects,
                              projectCounter, disposables, onWatched, onConfig,
                              backends, watchPatterns, watched, requested,
                              registering, callers, restarts, classified,
                              document, routed,
                                 registrations, bulk, teardown, response>>

\* every order of the elements of a finite set
Orders(S) ==
  {o \in [1..Cardinality(S) -> S] : \A x, y \in 1..Cardinality(S) : o[x] = o[y] => x = y}

\* lines 231-344: the glob answers (in an order of its own) and the loop
\* reads every file it names; the reads of one attempt are taken together
discovered(i) ==
  /\ attempts[i].pc = "glob"
  /\ \E files \in Orders({f \in fs.files : ~Ignored(f, attempts[i].ignore)}) :
       \E scan \in {ScanFiles(fs, EmptyScan, files, initializeParams.base)} :
          IF scan.failed
            THEN Finish(i, attempts[i], "rejected")
            ELSE \E folders \in {AutoFolders(scan.projects, initializeParams.base)} :
                    StartBackend(i, [attempts[i] EXCEPT
                      !.folders = folders,
                      !.versions = scan.versions,
                      !.cssFiles = scan.cssFiles,
                      !.resolved = Resolved(fs, folders),
                      !.seen = {<<files[k], fs.directive[files[k]]>> :
                                  k \in {k \in 1..Len(files) : IsCssFile(files[k])}}])

\* watchReady with the keys of every attempt counted from zero
watchReady_KeysFromZero(i) ==
  /\ attempts[i].pc = "watch"
  /\ disposables' = Append(disposables, [kind |-> initializeParams.watch, attempt |-> i])
  /\ watchPatterns' = IF initializeParams.watch = "parcel" THEN watchPatterns
                      ELSE [kind |-> initializeParams.watch, attempt |-> i]
  /\ attempts' = [attempts EXCEPT ![i].pc = "projects",
                    ![i].creating =
                      { [key |-> k - 1, folder |-> k, watch |-> watchPatterns'] :
                          k \in 1..Len(attempts[i].folders) }]
  /\ projectCounter' = projectCounter + Len(attempts[i].folders)
  /\ UNCHANGED <<initializeParams, settings, fs, initPromise, projects, onWatched,
                 onConfig, backends, watched, requested, registering, callers,
                 restarts, classified, document, routed,
                                 registrations, bulk, teardown, response>>

\* lines 455-471, 491-497, 516-559: the backend is up; its disposable and
\* this.watchPatterns are set, and addProject takes a key for every descriptor
watchReady(i) ==
  /\ attempts[i].pc = "watch"
  /\ disposables' = Append(disposables, [kind |-> initializeParams.watch, attempt |-> i])
  /\ watchPatterns' = IF initializeParams.watch = "parcel" THEN watchPatterns
                      ELSE [kind |-> initializeParams.watch, attempt |-> i]
  /\ attempts' = [attempts EXCEPT ![i].pc = "projects",
                    ![i].creating =
                      { [key |-> projectCounter + k - 1, folder |-> k, watch |-> watchPatterns'] :
                          k \in 1..Len(attempts[i].folders) }]
  /\ projectCounter' = projectCounter + Len(attempts[i].folders)
  /\ UNCHANGED <<initializeParams, settings, fs, initPromise, projects, onWatched,
                 onConfig, backends, watched, requested, registering, callers,
                 restarts, classified, document, routed,
                                 registrations, bulk, teardown, response>>

\* lines 627-649: createProjectService answers and the project is registered
projectCreated(i) ==
  /\ attempts[i].pc = "projects"
  /\ \E c \in attempts[i].creating :
       /\ projects' = Append(projects,
            [ key |-> c.key,
              configPath |-> attempts[i].folders[c.folder].configPath,
              documentSelector |-> attempts[i].folders[c.folder].documentSelector,
              attempt |-> i,
              watch |-> c.watch ])
       /\ attempts' = [attempts EXCEPT ![i].creating = @ \ {c}]
  /\ UNCHANGED <<initializeParams, settings, fs, initPromise, projectCounter,
                 disposables, onWatched, onConfig, backends, watchPatterns,
                 watched, requested, registering, callers, restarts, classified,
                 document, routed,
                                 registrations, bulk, teardown, response>>

\* projectsDone with _init never returning: the handlers are set once and
\* the attempt stays where it is
projectsDone_NeverReturns(i) ==
  /\ attempts[i].pc = "projects"
  /\ attempts[i].creating = {}
  /\ attempts[i].outcome = "running"
  /\ attempts' = [attempts EXCEPT ![i].outcome = "ok"]
  /\ disposables' = disposables \o
       << [kind |-> "configHandler", attempt |-> i],
          [kind |-> "shutdownHandler", attempt |-> i],
          [kind |-> "contentHandler", attempt |-> i],
          [kind |-> "openHandler", attempt |-> i] >>
  /\ onConfig' = i
  /\ UNCHANGED <<initializeParams, settings, fs, initPromise, projects,
                 projectCounter, onWatched, backends, watchPatterns, watched,
                 requested, registering, callers, restarts, classified,
                 document, routed,
                                 registrations, bulk, teardown, response>>

\* lines 559-612: every project is there; the remaining handlers are set
projectsDone(i) ==
  /\ attempts[i].pc = "projects"
  /\ attempts[i].creating = {}
  /\ attempts' = [attempts EXCEPT ![i].pc = "done", ![i].outcome = "ok"]
  /\ disposables' = disposables \o
       << [kind |-> "configHandler", attempt |-> i],
          [kind |-> "shutdownHandler", attempt |-> i],
          [kind |-> "contentHandler", attempt |-> i],
          [kind |-> "openHandler", attempt |-> i] >>
  /\ onConfig' = i
  /\ UNCHANGED <<initializeParams, settings, fs, initPromise, projects,
                 projectCounter, onWatched, backends, watchPatterns, watched,
                 requested, registering, callers, restarts, classified,
                 document, routed,
                                 registrations, bulk, teardown, response>>

\* the disposables of kind k in this.disposables
Disposed(k) == {d \in {disposables[x] : x \in 1..Len(disposables)} : d.kind = k}

\* the attempts in flight are marked as superseded
Supersede(atts) ==
  [k \in 1..Len(atts) |->
     IF atts[k].pc # "done" THEN [atts[k] EXCEPT !.superseded = TRUE] ELSE atts[k]]

\* what dispose() works on, and the record of what it has done
Live ==
  [ projects |-> projects, registrations |-> registrations, bulk |-> bulk,
    disposables |-> disposables, watched |-> watched, log |-> <<>> ]

\* the documents that are open: the one the router was last asked about
OpenDocuments == IF document = <<>> THEN {} ELSE {document}

\* line 861
notifyDestroyed(s) == [s EXCEPT !.log = Append(@, "projectsDestroyed")]

\* lines 862-864
disposeProjects(s) == [s EXCEPT !.log = Append(@, "projectsDisposed")]

\* line 865
clearRegistry(s) == [s EXCEPT !.projects = <<>>, !.log = Append(@, "registryCleared")]

\* TW.refreshDiagnostics as dispose() calls it: a document that routes to no
\* project gets empty diagnostics
refreshDiagnostics(s) ==
  [s EXCEPT !.log =
     Append(@, IF \A doc \in OpenDocuments : getProject(s.projects, doc) = NoProject
                 THEN "diagnosticsCleared"
                 ELSE "diagnosticsProvided")]

\* registration.then((r) => r.dispose()): a registration the client has
\* answered is disposed of before anything else runs, one it has not answered
\* is disposed of when the answer comes
DisposeLater(b, r) ==
  [b EXCEPT ![r] = IF @.status = "registered"
                     THEN [@ EXCEPT !.status = "disposed"]
                     ELSE [@ EXCEPT !.doomed = TRUE]]

\* lines 869-872
clearRegistrations(s) ==
  IF s.registrations = 0 THEN s
  ELSE [s EXCEPT !.bulk = DisposeLater(@, s.registrations),
                 !.registrations = 0,
                 !.log = Append(@, "registrationsCleared")]

\* lines 874-875
disposeDisposables(s) ==
  [s EXCEPT !.disposables = <<>>, !.log = Append(@, "disposablesDisposed")]

\* line 877
clearWatched(s) == [s EXCEPT !.watched = <<>>, !.log = Append(@, "watchedCleared")]

\* dispose with the pending registration cleared before the diagnostics
dispose_RegistrationsFirst(s) ==
  clearWatched(disposeDisposables(refreshDiagnostics(clearRegistrations(
    clearRegistry(disposeProjects(notifyDestroyed(s)))))))

\* TW.dispose
dispose(s) ==
  clearWatched(disposeDisposables(clearRegistrations(refreshDiagnostics(
    clearRegistry(disposeProjects(notifyDestroyed(s)))))))

\* restart without "this.initPromise = undefined": init() finds the old
\* promise and starts nothing
restart_KeepsPromise ==
  /\ LET d == dispose(Live) IN
       /\ projects' = d.projects
       /\ registrations' = d.registrations
       /\ bulk' = d.bulk
       /\ disposables' = d.disposables
       /\ watched' = d.watched
       /\ teardown' = Append(d.log, "init")
  /\ onWatched' = IF Disposed("fileHandler") # {} THEN 0 ELSE onWatched
  /\ onConfig' = IF Disposed("configHandler") # {} THEN 0 ELSE onConfig
  /\ backends' = backends \ (Disposed("client") \cup Disposed("parcel") \cup Disposed("chokidar"))
  /\ requested' = <<>>
  /\ restarts' = restarts + 1
  /\ restarts < MaxAttempts
  /\ UNCHANGED <<initPromise, attempts>>
  /\ UNCHANGED <<initializeParams, fs, projectCounter, watchPatterns, registering,
                 callers, document, routed, response>>

\* TW.restart: dispose(), then init() starts the next attempt
restart ==
  /\ Len(attempts) < MaxAttempts
  /\ LET d == dispose(Live) IN
       /\ projects' = d.projects
       /\ registrations' = d.registrations
       /\ bulk' = d.bulk
       /\ disposables' = d.disposables
       /\ watched' = d.watched
       /\ teardown' = Append(d.log, "init")
  /\ onWatched' = IF Disposed("fileHandler") # {} THEN 0 ELSE onWatched
  /\ onConfig' = IF Disposed("configHandler") # {} THEN 0 ELSE onConfig
  /\ backends' = backends \ (Disposed("client") \cup Disposed("parcel") \cup Disposed("chokidar"))
  /\ requested' = <<>>
  /\ initPromise' = Len(attempts) + 1
  /\ attempts' = Append(Supersede(attempts), NewAttempt)
  /\ restarts' = restarts + 1
  /\ UNCHANGED <<initializeParams, fs, projectCounter, watchPatterns, registering,
                 callers, document, routed, response>>

\* restart() called from outside this file
externalRestart ==
  /\ initPromise # 0
  /\ restart
  /\ UNCHANGED <<settings, classified>>

ExcludeLists == {<<>>, <<(<<"**", "b", "**">>)>>}

\* lines 573-588: the settings change and the handler of attempt i fetches
\* them again
configurationChanged(i) ==
  /\ onConfig = i
  /\ \E exclude \in ExcludeLists :
       /\ settings' = [settings EXCEPT !.exclude = exclude]
       /\ IF exclude # attempts[i].exclude
            THEN restart
            ELSE UNCHANGED <<initializeParams, fs, initPromise, attempts, projects,
                             projectCounter, disposables, onWatched, onConfig,
                             backends, watchPatterns, watched, requested,
                             registering, callers, restarts, document, routed,
                                 registrations, bulk, teardown, response>>
  /\ UNCHANGED classified

\* TRIGGER_CHARACTERS (the three quote characters are spelled out)
TRIGGER_CHARACTERS ==
  <<"doublequote", "quote", "backtick", " ", ".", "(", "[", "!", "/">>

MaxRegistrations == 2

\* project.state.separator: a string (its characters) or not a string
Chars(cs) == [str |-> TRUE, chars |-> cs]
NoSeparator == [str |-> FALSE, chars |-> <<>>]
Separators == {Chars(<<":">>), Chars(<<"_", "/">>), NoSeparator}

\* sep.slice(-1)
LastChar(cs) == IF cs = <<>> THEN "" ELSE cs[Len(cs)]

IsString(sep) == sep.str
Truthy(c) == c # ""

\* lines 732-739: the completion trigger characters
triggerCharacters(seps) ==
  LET strings == SelectSeq(seps, IsString)
  IN SelectSeq(TRIGGER_CHARACTERS
                 \o [k \in 1..Len(strings) |-> LastChar(strings[k].chars)],
               Truthy)

\* TW.updateCapabilities, called by a live project; seps[k] is the separator
\* of projects[k]
updateCapabilities(seps) ==
  /\ projects # <<>>
  /\ Len(bulk) < MaxRegistrations
  /\ IF ~initializeParams.dynamic
       THEN UNCHANGED <<registrations, bulk>>
       ELSE /\ bulk' = Append(IF registrations = 0 THEN bulk
                                ELSE DisposeLater(bulk, registrations),
                              [ status |-> "pending", doomed |-> FALSE,
                                separators |-> seps,
                                triggerCharacters |-> triggerCharacters(seps) ])
            /\ registrations' = Len(bulk) + 1
  /\ UNCHANGED <<initializeParams, settings, fs, initPromise, attempts, projects,
                 projectCounter, disposables, onWatched, onConfig, backends,
                 watchPatterns, watched, requested, registering, callers, restarts,
                 classified, document, routed, teardown, response>>

\* the client answers the registration r: a registration that was to be
\* disposed of is disposed of now
capabilitiesRegistered(r) ==
  /\ bulk[r].status = "pending"
  /\ bulk' = [bulk EXCEPT ![r].status = IF bulk[r].doomed THEN "disposed" ELSE "registered"]
  /\ UNCHANGED <<initializeParams, settings, fs, initPromise, attempts, projects,
                 projectCounter, disposables, onWatched, onConfig, backends,
                 watchPatterns, watched, requested, registering, callers, restarts,
                 classified, document, routed, registrations, teardown, response>>

\* TW.filterNewWatchPatterns
filterNewWatchPatterns(patterns) ==
  SelectSeq(patterns, LAMBDA pattern : \A k \in 1..Len(watched) : watched[k] # pattern)

WatchLists ==
  { <<"/w/a/src/**">>, <<"/w/a/src/**", "/w/a/src/**">>,
    <<"/w/a/src/**", "/w/a/**">>, <<"**/CSS_GLOB">> }

\* lines 459-471, 541-547: project k calls the watchPatterns it was given
projectWatchPatterns(k) ==
  /\ projects[k].watch # NoOp
  /\ Len(watched) < MaxWatched
  /\ \E patterns \in WatchLists :
       LET newPatterns == filterNewWatchPatterns(patterns)
       IN /\ watched' = watched \o newPatterns
          /\ requested' = requested \o Requests(newPatterns, projects[k].watch.attempt)
          /\ registering' = IF newPatterns # <<>> /\ projects[k].watch.kind = "client"
                              THEN registering + 1 ELSE registering
  /\ UNCHANGED <<initializeParams, settings, fs, initPromise, attempts, projects,
                 projectCounter, disposables, onWatched, onConfig, backends,
                 watchPatterns, callers, restarts, classified, document, routed,
                                 registrations, bulk, teardown, response>>

\* lines 467-469: a registration of watchPatterns answers
registered ==
  /\ registering > 0
  /\ registering' = registering - 1
  /\ disposables' = Append(disposables, [kind |-> "patterns", attempt |-> 0])
  /\ UNCHANGED <<initializeParams, settings, fs, initPromise, attempts, projects,
                 projectCounter, onWatched, onConfig, backends, watchPatterns,
                 watched, requested, callers, restarts, classified, document,
                 routed,
                                 registrations, bulk, teardown, response>>

\* Map.get: the value paired with key in a set of pairs, or undefined
MapGet(m, key, undefined) ==
  IF \E e \in m : e[1] = key THEN (CHOOSE e \in m : e[1] = key)[2] ELSE undefined

MapHas(m, key) == \E e \in m : e[1] = key

\* changeAffectsFile(change, [file]) of ./utils
changeAffectsFile(change, file) == change = file

\* lines 364-379: some live project resolves to another version than the
\* one configTailwindVersionMap holds for its configuration
VersionDrift(reg, f, versions) ==
  \E k \in 1..Len(reg) :
    MapGet(versions, reg[k].configPath, Unresolved)
      # ResolveVersion(f, reg[k].configPath).twVersion

\* fs.promises.readFile(cssFile) succeeds
Readable(f, file) == file \in f.files /\ f.directive[file] # Unreadable

\* lines 351-416: the loop over the changes of one batch, as the handler of
\* an attempt with locals att runs it: "restart" for needsRestart, "forward"
\* for the loop ending without it, "threw" when reading a stylesheet fails
RECURSIVE Classify(_, _, _, _)
Classify(changes, reg, f, att) ==
  IF changes = <<>> THEN "forward"
  ELSE
    LET change == Head(changes)
        file == change.file
        configPath == getConfigFileFromCssFile(f, file)
    IN IF Ignored(file, att.ignore) THEN Classify(Tail(changes), reg, f, att)
       ELSE IF IsPackageFile(file) /\ VersionDrift(reg, f, att.versions) THEN "restart"
       ELSE IF IsCssFile(file) /\ change.type # "Deleted" /\ ~Readable(f, file) THEN "threw"
       ELSE IF /\ IsCssFile(file) /\ change.type # "Deleted"
               /\ \/ /\ MapHas(att.cssFiles, file)
                     /\ MapGet(att.cssFiles, file, NoConfig) # configPath
                  \/ ~MapHas(att.cssFiles, file) /\ configPath # NoConfig
         THEN "restart"
       ELSE IF IsConfigFile(file) /\ change.type = "Created" THEN "restart"
       ELSE IF /\ change.type = "Deleted"
               /\ \E k \in 1..Len(reg) : changeAffectsFile(file, reg[k].configPath)
         THEN "restart"
       ELSE Classify(Tail(changes), reg, f, att)

\* lines 431-440: the client's changes without the repeats of (file, type)
RECURSIVE DedupeChangesFrom(_, _)
DedupeChangesFrom(changes, i) ==
  IF i > Len(changes) THEN <<>>
  ELSE (IF \E j \in 1..(i - 1) : changes[j] = changes[i] THEN <<>> ELSE <<changes[i]>>)
       \o DedupeChangesFrom(changes, i + 1)

NormalizedChanges(changes) ==
  IF initializeParams.watch = "client" THEN DedupeChangesFrom(changes, 1) ELSE changes

\* the backend of attempt i can call its onDidChangeWatchedFiles: the
\* connection holds its handler (client), or its subscription is live and
\* its callbacks are attached (lines 479-491, 518-533)
CanDeliver(i) ==
  IF initializeParams.watch = "client"
    THEN onWatched = i
    ELSE /\ [kind |-> initializeParams.watch, attempt |-> i] \in backends
         /\ attempts[i].pc \in {"projects", "done"}

\* lines 348-426: the watch handler of attempt i is given a batch
watchedFilesChanged(i, batch) ==
  /\ CanDeliver(i)
  /\ initializeParams.watch = "chokidar" => Len(batch) = 1
  /\ LET changes == NormalizedChanges(batch)
         outcome == Classify(changes, projects, fs, attempts[i])
     IN /\ classified' =
             [ seq |-> 1 - classified.seq, handler |-> i, changes |-> changes,
               outcome |-> outcome,
               forwarded |->
                 IF outcome = "forward"
                   THEN [k \in 1..Len(projects) |->
                           [key |-> projects[k].key, changes |-> changes]]
                   ELSE <<>> ]
        /\ IF outcome = "restart"
             THEN restart
             ELSE UNCHANGED <<initializeParams, fs, initPromise, attempts, projects,
                              projectCounter, disposables, onWatched, onConfig,
                              backends, watchPatterns, watched, requested,
                              registering, callers, restarts, document, routed,
                                 registrations, bulk, teardown, response>>
  /\ UNCHANGED settings

\* a protocol handler routes a document: this.getProject(params.textDocument)
Route(doc) ==
  /\ document' = doc
  /\ routed' = getProject(projects, doc)
  /\ UNCHANGED projects
  /\ UNCHANGED lifecycleVars

\* lines 789-822: a handler whose "await this.init()" has returned (it has
\* not thrown) goes on to getProject
handlerRoutes(c, doc) ==
  /\ c.done
  /\ attempts[c.awaits].outcome # "rejected"
  /\ Route(doc)

\* what onRequest returns: enabled and state are project.enabled() and
\* project.state of the routed project, throws says whether its
\* sortClassLists throws
Answer(method, p, enabled, state, throws) ==
  IF method = "sortSelection"
    THEN IF p = NoProject THEN "no-project"
         ELSE IF throws THEN "unknown"
         ELSE "classLists"
    ELSE IF p = NoProject \/ ~enabled \/ ~(state.loaded /\ state.enabled) THEN "null"
         ELSE "version"

\* onRequest without the tests of project.enabled() and project.state
onRequest_NoEnabledTest(method, doc, enabled, state, throws) ==
  /\ document' = doc
  /\ routed' = getProject(projects, doc)
  /\ response' = [ method |-> method, document |-> doc, key |-> NoKey,
                   from |-> NoKey,
                   enabled |-> enabled, state |-> state, throws |-> throws,
                   result |-> Answer(method, routed', TRUE, [loaded |-> TRUE, enabled |-> TRUE],
                                     throws) ]
  /\ UNCHANGED <<initializeParams, settings, fs, initPromise, attempts, projects,
                 projectCounter, disposables, onWatched, onConfig, backends,
                 watchPatterns, watched, requested, registering, callers, restarts,
                 classified, registrations, bulk, teardown>>

\* TW.onRequest: '@/tailwindCSS/sortSelection' and '@/tailwindCSS/getProject'
onRequest(method, doc, enabled, state, throws) ==
  /\ document' = doc
  /\ routed' = getProject(projects, doc)
  /\ response' = [ method |-> method, document |-> doc, key |-> NoKey,
                   from |-> NoKey,
                   enabled |-> enabled, state |-> state, throws |-> throws,
                   result |-> Answer(method, routed', enabled, state, throws) ]
  /\ UNCHANGED <<initializeParams, settings, fs, initPromise, attempts, projects,
                 projectCounter, disposables, onWatched, onConfig, backends,
                 watchPatterns, watched, requested, registering, callers, restarts,
                 classified, registrations, bulk, teardown>>

\* this.projects.get(key): the position of the first project with the key
Get(reg, key) ==
  IF \E k \in 1..Len(reg) : reg[k].key = key
    THEN CHOOSE k \in 1..Len(reg) : reg[k].key = key /\ \A j \in 1..(k - 1) : reg[j].key # key
    ELSE NoProject

\* lines 809-812: onCompletionResolve for an item that carries key, called
\* when the attempt of this.initPromise has finished; the answer is null or
\* the item as the project under the key resolves it ("from" is the key
\* that project was created with)
onCompletionResolve(key) ==
  /\ initPromise # 0
  /\ attempts[initPromise].pc = "done"
  /\ attempts[initPromise].outcome # "rejected"
  /\ response' =
       [ NoResponse EXCEPT
           !.method = "completionResolve",
           !.key = key,
           !.result = IF Get(projects, key) = NoProject THEN "null" ELSE "item",
           !.from = IF Get(projects, key) = NoProject THEN NoKey
                    ELSE projects[Get(projects, key)].key ]
  /\ UNCHANGED <<initializeParams, settings, fs, initPromise, attempts, projects,
                 projectCounter, disposables, onWatched, onConfig, backends,
                 watchPatterns, watched, requested, registering, callers, restarts,
                 classified, document, routed, registrations, bulk, teardown>>

\* lines 789-822: a handler called when the attempt of this.initPromise has
\* finished: its "await this.init()" returns at once
handlerRoutesAtOnce(doc) ==
  /\ initPromise # 0
  /\ attempts[initPromise].pc = "done"
  /\ attempts[initPromise].outcome # "rejected"
  /\ Route(doc)

----------------------------------------------------------------------------
(* The router on its own: any small registry, any document.                *)

MaxProjects == 2
MaxSelectors == 2

SeqsUpTo(S, n) == UNION {[1..k -> S] : k \in 0..n}

RouteSelectors ==
  { Sel(FALSE, <<"w", "a", "**">>, CONFIG_DIRECTORY),
    Sel(FALSE, <<"w", "**">>, PACKAGE_DIRECTORY),
    Sel(TRUE, <<"w", "a", "x", "**">>, CONTENT_FILE),
    Sel(TRUE, <<"w", "a", "y", "**">>, CONTENT_FILE) }

RouteDocuments ==
  { <<"w", "a", "y", "f.html">>, <<"w", "a", "f.html">>, <<"w", "c", "f.html">> }

RouteConfig == <<"w", "a", "tailwind.config.js">>

RouteProjects ==
  { [configPath |-> RouteConfig, documentSelector |-> ds] :
      ds \in SeqsUpTo(RouteSelectors, MaxSelectors) }
  \cup { [configPath |-> NoConfig, documentSelector |-> <<>>] }

FixedFs ==
  [ files |-> {CfgA},
    pkgs |-> {},
    directive |-> [f \in {CssA} |-> <<>>],
    tw |-> [d \in Dirs |-> V330],
    content |-> [c \in {CfgA, CfgB} |-> [ok |-> TRUE, relative |-> FALSE, items |-> <<>>]] ]

NoConfigFile == [kind |-> "none", entries |-> <<>>]

InitRoute ==
  /\ InitState
  /\ initializeParams = [base |-> Base, watch |-> "client", dynamic |-> TRUE]
  /\ settings = [exclude |-> <<>>, configFile |-> NoConfigFile]
  /\ fs = FixedFs
  /\ projects \in SeqsUpTo(RouteProjects, MaxProjects)

NextRoute == \E doc \in RouteDocuments : Route(doc)

SpecRoute == InitRoute /\ [][NextRoute]_vars

----------------------------------------------------------------------------
(* The lifecycle: init, restart, the attempts, the watch patterns.  The    *)
(* file system stays as it is; the settings are any of ConfigFiles.        *)

Item(segs) == [str |-> TRUE, segs |-> segs]
NotAString == [str |-> FALSE, segs |-> <<>>]

\* "tailwindCSS.experimental.configFile": "a/tailwind.config.js"
ExplicitA ==
  [kind |-> "string", entries |-> <<[key |-> <<"a", "tailwind.config.js">>,
                                     value |-> [type |-> "string", items |-> <<>>]]>>]

ConfigFiles ==
  { NoConfigFile,
    ExplicitA,
    [kind |-> "map", entries |->
       << [key |-> <<"a", "tailwind.config.js">>,
           value |-> [type |-> "array", items |-> <<Item(<<"a", "**">>), Item(<<"a", "**">>)>>]] >>],
    [kind |-> "map", entries |->
       << [key |-> <<"a", "tailwind.config.js">>,
           value |-> [type |-> "string", items |-> <<Item(<<"a", "**">>)>>]],
          [key |-> <<"b", "tailwind.config.ts">>,
           value |-> [type |-> "number", items |-> <<>>]] >>],
    [kind |-> "map", entries |->
       << [key |-> <<"a", "tailwind.config.js">>,
           value |-> [type |-> "array", items |-> <<Item(<<"a", "**">>), NotAString>>]] >>],
    [kind |-> "other", entries |-> <<>>] }

Init ==
  /\ InitState
  /\ initializeParams \in [base : {Base, <<>>}, watch : {"client", "parcel", "chokidar"},
                           dynamic : {TRUE}]
  /\ settings \in [exclude : {<<>>}, configFile : ConfigFiles]
  /\ fs = FixedFs
  /\ projects = <<>>

Next ==
  \/ onInitialized
  \/ \E c \in callers : initReturns(c)
  \/ \E i \in 1..Len(attempts) : settingsFetched(i)
  \/ \E i \in 1..Len(attempts) : discovered(i)
  \/ \E i \in 1..Len(attempts) : watchReady(i)
  \/ \E i \in 1..Len(attempts) : projectCreated(i)
  \/ \E i \in 1..Len(attempts) : projectsDone(i)
  \/ \E i \in 1..Len(attempts) : configurationChanged(i)
  \/ externalRestart

Spec == Init /\ [][Next]_vars

----------------------------------------------------------------------------
(* The callers of init: every protocol handler awaits init() (lines        *)
(* 789-822), at any time, next to the attempts and the restarts.           *)

InitCallers ==
  /\ InitState
  /\ initializeParams \in [base : {Base, <<>>}, watch : {"client", "parcel", "chokidar"},
                           dynamic : {TRUE}]
  /\ settings = [exclude |-> <<>>, configFile |-> NoConfigFile]
  /\ fs = FixedFs
  /\ projects = <<>>

NextCallers ==
  \/ init
  \/ \E c \in callers : initReturns(c)
  \/ \E i \in 1..Len(attempts) : settingsFetched(i)
  \/ \E i \in 1..Len(attempts) : discovered(i)
  \/ \E i \in 1..Len(attempts) : watchReady(i)
  \/ \E i \in 1..Len(attempts) : projectCreated(i)
  \/ \E i \in 1..Len(attempts) : projectsDone(i)
  \/ externalRestart

SpecCallers == InitCallers /\ [][NextCallers]_vars

----------------------------------------------------------------------------
(* Automatic discovery over the workspaces of DiscFs, and the routing of   *)
(* documents once init() has returned.                                     *)

NotLoaded == [ok |-> FALSE, relative |-> FALSE, items |-> <<>>]

\* module.exports of a/tailwind.config.js
ContentsA ==
  { NotLoaded,
    [ok |-> TRUE, relative |-> FALSE, items |-> <<Pat(FALSE, <<"src", "**">>)>>],
    [ok |-> TRUE, relative |-> TRUE, items |-> <<Pat(FALSE, <<"src", "**">>)>>],
    [ok |-> TRUE, relative |-> TRUE, items |-> <<Pat(TRUE, <<"x", "**">>)>>] }

\* module.exports of b/tailwind.config.ts
ContentsB ==
  { NotLoaded,
    [ok |-> TRUE, relative |-> TRUE, items |-> <<Pat(FALSE, <<"lib", "**">>)>>] }

Directives ==
  { <<>>, <<"tailwind.config.js">>, <<"..", "b", "tailwind.config.ts">>, Unreadable }

DiscFs ==
  { f \in [ files : SUBSET {CfgA, CfgB, CssA},
            pkgs : { {}, {<<"w", "a">>}, {<<"w", "a">>, <<"w", "b">>} },
            directive : [{CssA} -> Directives],
            tw : { [d \in Dirs |-> IF d = <<"w", "a">> THEN va
                                   ELSE IF d = <<"w", "b">> THEN vb ELSE V330] :
                     va \in {V310, V330, Unresolved}, vb \in {V320, V330} },
            content : { [c \in {CfgA, CfgB} |-> IF c = CfgA THEN ca ELSE cb] :
                          ca \in ContentsA, cb \in ContentsB } ] :
      /\ \A c \in {CfgA, CfgB} : f.content[c].ok => c \in f.files
      /\ CssA \notin f.files => f.directive[CssA] = <<>> }

DiscDocuments ==
  { <<"w", "a", "src", "index.html">>, <<"w", "a", "x", "f.html">>,
    <<"w", "b", "f.html">>, <<"w", "c", "unrelated.html">> }

InitDisc ==
  /\ InitState
  /\ initializeParams = [base |-> Base, watch |-> "client", dynamic |-> TRUE]
  /\ settings = [exclude |-> <<>>, configFile |-> NoConfigFile]
  /\ fs \in DiscFs
  /\ projects = <<>>

NextDisc ==
  \/ onInitialized
  \/ \E c \in callers : initReturns(c)
  \/ \E i \in 1..Len(attempts) : settingsFetched(i)
  \/ \E i \in 1..Len(attempts) : discovered(i)
  \/ \E i \in 1..Len(attempts) : watchReady(i)
  \/ \E i \in 1..Len(attempts) : projectCreated(i)
  \/ \E i \in 1..Len(attempts) : projectsDone(i)
  \/ \E c \in callers, doc \in DiscDocuments : handlerRoutes(c, doc)

SpecDisc == InitDisc /\ [][NextDisc]_vars

----------------------------------------------------------------------------
(* The watch handler: the workspace changes under a running server and the *)
(* backend reports batches of changes.                                     *)

\* the stylesheet is written with the @config directive d
written(d) ==
  /\ fs' = [fs EXCEPT !.files = @ \cup {CssA}, !.directive[CssA] = d]
  /\ fs' # fs
  /\ UNCHANGED <<initializeParams, settings, initPromise, attempts, projects,
                 projectCounter, disposables, onWatched, onConfig, backends,
                 watchPatterns, watched, requested, registering, callers,
                 restarts, classified, document, routed,
                                 registrations, bulk, teardown, response>>

\* version v of tailwindcss is installed under a/
installed(v) ==
  /\ fs' = [fs EXCEPT !.tw[<<"w", "a">>] = v]
  /\ fs' # fs
  /\ UNCHANGED <<initializeParams, settings, initPromise, attempts, projects,
                 projectCounter, disposables, onWatched, onConfig, backends,
                 watchPatterns, watched, requested, registering, callers,
                 restarts, classified, document, routed,
                                 registrations, bulk, teardown, response>>

WatchFs ==
  { [FixedFs EXCEPT !.files = files, !.directive[CssA] = d, !.tw[<<"w", "a">>] = v] :
      files \in {{CfgA}, {CfgA, CssA}},
      d \in {<<>>, <<"tailwind.config.js">>},
      v \in {V310, V330} }

WatchBatches ==
  { <<[file |-> LockFile, type |-> "Changed"]>>,
    <<[file |-> LockFile, type |-> "Changed"], [file |-> LockFile, type |-> "Changed"]>>,
    <<[file |-> CssA, type |-> "Changed"]>>,
    <<[file |-> CssA, type |-> "Created"]>>,
    <<[file |-> CfgA, type |-> "Deleted"]>> }

InitWatch ==
  /\ InitState
  /\ initializeParams \in [base : {Base}, watch : {"client", "chokidar"},
                           dynamic : {TRUE}]
  /\ settings \in [exclude : {<<>>}, configFile : {NoConfigFile, ExplicitA}]
  /\ fs \in WatchFs
  /\ projects = <<>>

NextWatch ==
  \/ onInitialized
  \/ \E i \in 1..Len(attempts) : settingsFetched(i)
  \/ \E i \in 1..Len(attempts) : discovered(i)
  \/ \E i \in 1..Len(attempts) : watchReady(i)
  \/ \E i \in 1..Len(attempts) : projectCreated(i)
  \/ \E i \in 1..Len(attempts) : projectsDone(i)
  \/ \E d \in {<<>>, <<"tailwind.config.js">>} : written(d)
  \/ \E v \in {V310, V330} : installed(v)
  \/ \E i \in 1..Len(attempts), batch \in WatchBatches : watchedFilesChanged(i, batch)

SpecWatch == InitWatch /\ [][NextWatch]_vars

----------------------------------------------------------------------------
(* The watch patterns the projects ask for.                                *)

InitPatterns ==
  /\ InitState
  /\ initializeParams \in [base : {Base}, watch : {"client", "parcel", "chokidar"},
                           dynamic : {TRUE}]
  /\ settings = [exclude |-> <<>>, configFile |-> NoConfigFile]
  /\ fs = FixedFs
  /\ projects = <<>>

NextPatterns ==
  \/ onInitialized
  \/ \E i \in 1..Len(attempts) : settingsFetched(i)
  \/ \E i \in 1..Len(attempts) : discovered(i)
  \/ \E i \in 1..Len(attempts) : watchReady(i)
  \/ \E i \in 1..Len(attempts) : projectCreated(i)
  \/ \E i \in 1..Len(attempts) : projectsDone(i)
  \/ \E k \in 1..Len(projects) : projectWatchPatterns(k)
  \/ registered
  \/ externalRestart

SpecPatterns == InitPatterns /\ [][NextPatterns]_vars

----------------------------------------------------------------------------
(* The capability registrations: the projects of a workspace with two     *)
(* configurations call updateCapabilities, the client answers, a change   *)
(* of the exclude setting restarts the server.                             *)

CapsDocuments == {<<"w", "a", "f.html">>}

SeparatorLists(n) == [1..n -> Separators]

TwoConfigFs == [FixedFs EXCEPT !.files = {CfgA, CfgB}]

InitCaps ==
  /\ InitState
  /\ initializeParams \in [base : {Base}, watch : {"client"}, dynamic : BOOLEAN]
  /\ settings = [exclude |-> <<>>, configFile |-> NoConfigFile]
  /\ fs = TwoConfigFs
  /\ projects = <<>>

NextCaps ==
  \/ onInitialized
  \/ \E i \in 1..Len(attempts) : settingsFetched(i)
  \/ \E i \in 1..Len(attempts) : discovered(i)
  \/ \E i \in 1..Len(attempts) : watchReady(i)
  \/ \E i \in 1..Len(attempts) : projectCreated(i)
  \/ \E i \in 1..Len(attempts) : projectsDone(i)
  \/ \E seps \in SeparatorLists(Len(projects)) : updateCapabilities(seps)
  \/ \E r \in 1..Len(bulk) : capabilitiesRegistered(r)
  \/ \E i \in 1..Len(attempts) : configurationChanged(i)

SpecCaps == InitCaps /\ [][NextCaps]_vars

----------------------------------------------------------------------------
(* The teardown: projects with the default separator register their        *)
(* capabilities, a document is routed, a change of the exclude setting     *)
(* restarts the server.                                                    *)

DefaultSeparators == [k \in 1..Len(projects) |-> Chars(<<":">>)]

InitTeardown ==
  /\ InitState
  /\ initializeParams = [base |-> Base, watch |-> "client", dynamic |-> TRUE]
  /\ settings = [exclude |-> <<>>, configFile |-> NoConfigFile]
  /\ fs = FixedFs
  /\ projects = <<>>

NextTeardown ==
  \/ onInitialized
  \/ \E i \in 1..Len(attempts) : settingsFetched(i)
  \/ \E i \in 1..Len(attempts) : discovered(i)
  \/ \E i \in 1..Len(attempts) : watchReady(i)
  \/ \E i \in 1..Len(attempts) : projectCreated(i)
  \/ \E i \in 1..Len(attempts) : projectsDone(i)
  \/ updateCapabilities(DefaultSeparators)
  \/ \E r \in 1..Len(bulk) : capabilitiesRegistered(r)
  \/ \E doc \in CapsDocuments : handlerRoutesAtOnce(doc)
  \/ \E i \in 1..Len(attempts) : configurationChanged(i)

SpecTeardown == InitTeardown /\ [][NextTeardown]_vars

----------------------------------------------------------------------------
(* The custom requests, over any small registry.                           *)

RequestProjects ==
  { [configPath |-> RouteConfig,
     documentSelector |-> <<Sel(FALSE, <<"w", "a", "**">>, CONFIG_DIRECTORY)>>],
    [configPath |-> RouteConfig,
     documentSelector |-> <<Sel(TRUE, <<"w", "a", "y", "**">>, CONTENT_FILE),
                            Sel(FALSE, <<"w", "**">>, PACKAGE_DIRECTORY)>>],
    [configPath |-> NoConfig, documentSelector |-> <<>>] }

Methods == {"sortSelection", "getProject"}

States == {NoState} \cup [loaded : {TRUE}, enabled : BOOLEAN]

InitRequest ==
  /\ InitState
  /\ initializeParams = [base |-> Base, watch |-> "client", dynamic |-> TRUE]
  /\ settings = [exclude |-> <<>>, configFile |-> NoConfigFile]
  /\ fs = FixedFs
  /\ projects \in SeqsUpTo(RequestProjects, MaxProjects)

NextRequest ==
  \E method \in Methods, doc \in RouteDocuments, enabled \in BOOLEAN,
     state \in States, throws \in BOOLEAN :
    onRequest(method, doc, enabled, state, throws)

SpecRequest == InitRequest /\ [][NextRequest]_vars

----------------------------------------------------------------------------
(* Batches of several changes: the client reports changes of the           *)
(* stylesheet, the lock file and the configuration files together.         *)

BatchFs == { [FixedFs EXCEPT !.files = files] : files \in {{CfgA}, {CfgA, CssA}} }

Change(file, type) == [file |-> file, type |-> type]

Batches ==
  { <<Change(CfgB, "Created")>>,
    <<Change(CssA, "Changed"), Change(CfgB, "Created")>>,
    <<Change(CfgB, "Created"), Change(CssA, "Changed")>>,
    <<Change(LockFile, "Changed"), Change(CfgA, "Deleted")>>,
    <<Change(LockFile, "Changed"), Change(CssA, "Deleted")>>,
    <<Change(CssA, "Changed"), Change(CssA, "Changed")>> }

InitBatch ==
  /\ InitState
  /\ initializeParams \in [base : {Base}, watch : {"client", "parcel"}, dynamic : {TRUE}]
  /\ settings \in [exclude : ExcludeLists, configFile : {NoConfigFile}]
  /\ fs \in BatchFs
  /\ projects = <<>>

NextBatch ==
  \/ onInitialized
  \/ \E i \in 1..Len(attempts) : settingsFetched(i)
  \/ \E i \in 1..Len(attempts) : discovered(i)
  \/ \E i \in 1..Len(attempts) : watchReady(i)
  \/ \E i \in 1..Len(attempts) : projectCreated(i)
  \/ \E i \in 1..Len(attempts) : projectsDone(i)
  \/ \E i \in 1..Len(attempts), batch \in Batches : watchedFilesChanged(i, batch)

SpecBatch == InitBatch /\ [][NextBatch]_vars

----------------------------------------------------------------------------
(* The project keys: attempts overlap, the server restarts, completion     *)
(* items that carry a key are resolved.                                    *)

InitKeys ==
  /\ InitState
  /\ initializeParams = [base |-> Base, watch |-> "client", dynamic |-> TRUE]
  /\ settings = [exclude |-> <<>>, configFile |-> NoConfigFile]
  /\ fs = FixedFs
  /\ projects = <<>>

NextKeys ==
  \/ onInitialized
  \/ \E i \in 1..Len(attempts) : settingsFetched(i)
  \/ \E i \in 1..Len(attempts) : discovered(i)
  \/ \E i \in 1..Len(attempts) : watchReady(i)
  \/ \E i \in 1..Len(attempts) : projectCreated(i)
  \/ \E i \in 1..Len(attempts) : projectsDone(i)
  \/ \E key \in 0..(projectCounter - 1) : onCompletionResolve(key)
  \/ externalRestart

SpecKeys == InitKeys /\ [][NextKeys]_vars

----------------------------------------------------------------------------
(* Progress: the asynchronous steps of every attempt complete (weak        *)
(* fairness); change batches, settings changes and outside restarts come   *)
(* when they come.                                                         *)

LiveBatches == { <<Change(CfgB, "Created")>> }

InitLive ==
  /\ InitState
  /\ initializeParams = [base |-> Base, watch |-> "client", dynamic |-> TRUE]
  /\ settings = [exclude |-> <<>>, configFile |-> NoConfigFile]
  /\ fs = FixedFs
  /\ projects = <<>>

NextLive ==
  \/ onInitialized
  \/ \E i \in 1..Len(attempts) : settingsFetched(i)
  \/ \E i \in 1..Len(attempts) : discovered(i)
  \/ \E i \in 1..Len(attempts) : watchReady(i)
  \/ \E i \in 1..Len(attempts) : projectCreated(i)
  \/ \E i \in 1..Len(attempts) : projectsDone(i)
  \/ \E i \in 1..Len(attempts) : configurationChanged(i)
  \/ \E i \in 1..Len(attempts), batch \in LiveBatches : watchedFilesChanged(i, batch)
  \/ externalRestart

\* an awaited step of attempt i completes
AsyncStep(i) ==
  \/ settingsFetched(i)
  \/ discovered(i)
  \/ watchReady(i)
  \/ projectCreated(i)
  \/ projectsDone(i)

Fairness ==
  /\ WF_vars(onInitialized)
  /\ \A i \in 1..MaxAttempts : WF_vars(i \in 1..Len(attempts) /\ AsyncStep(i))

SpecLive == InitLive /\ [][NextLive]_vars /\ Fairness

----------------------------------------------------------------------------
(* Claims about the router.                                                *)

\* project i is vetoed for doc: a negated selector's body matches doc
Vetoed(reg, i, doc) ==
  \E k \in 1..Len(reg[i].documentSelector) :
    LET s == reg[i].documentSelector[k]
    IN s.pattern.neg /\ MatchOne(doc, Escape(s.pattern).segs)

\* the priorities of project i's matching non-negated selectors
MatchingPriorities(reg, i, doc) ==
  { reg[i].documentSelector[k].priority :
      k \in { k \in 1..Len(reg[i].documentSelector) :
                LET s == reg[i].documentSelector[k]
                IN ~s.pattern.neg /\ MatchOne(doc, Escape(s.pattern).segs) } }

Candidates(reg, doc) ==
  { i \in 1..Len(reg) :
      /\ reg[i].configPath # NoConfig
      /\ ~Vetoed(reg, i, doc)
      /\ MatchingPriorities(reg, i, doc) # {} }

MinOf(S) == CHOOSE x \in S : \A y \in S : x <= y

BestPriority(reg, i, doc) == MinOf(MatchingPriorities(reg, i, doc))

\* the candidate with the least priority ordinal, the first registered on a tie
BestCandidate(reg, doc) ==
  CHOOSE i \in Candidates(reg, doc) :
    \A j \in Candidates(reg, doc) :
      \/ BestPriority(reg, i, doc) < BestPriority(reg, j, doc)
      \/ BestPriority(reg, i, doc) = BestPriority(reg, j, doc) /\ i <= j

\* C1: over the projects that carry a configPath and are not vetoed for the
\* document, getProject returns the owner of the matching non-negated
\* selector of least priority ordinal, the first registered on a tie.
C1_MinimalPriorityWins ==
  (document # <<>> /\ Candidates(projects, document) # {})
    => routed = BestCandidate(projects, document)

\* C2: a project one of whose negated selectors matches the document is
\* never the answer of getProject for that document.
C2_VetoedNeverReturned ==
  document # <<>> =>
    \A i \in 1..Len(projects) :
      (projects[i].configPath # NoConfig /\ Vetoed(projects, i, document)) => routed # i

----------------------------------------------------------------------------
(* Claims about automatic discovery.                                       *)

\* doc lies under the directory dir
UnderDir(doc, dir) == Len(doc) > Len(dir) /\ SubSeq(doc, 1, Len(dir)) = dir

\* doc matches a non-negated content glob of project p
InContent(p, doc) ==
  \E k \in 1..Len(p.documentSelector) :
    LET s == p.documentSelector[k]
    IN s.priority = CONTENT_FILE /\ ~s.pattern.neg /\ MatchOne(doc, Escape(s.pattern).segs)

\* doc is inside the directory of p's configuration or inside its content
\* globs
Inside(p, doc) == UnderDir(doc, Dirname(p.configPath)) \/ InContent(p, doc)

\* the priorities of the selectors of p that minimatch accepts doc for
Matched(p, doc) ==
  { p.documentSelector[k].priority :
      k \in { k \in 1..Len(p.documentSelector) :
                Minimatch(doc, Escape(p.documentSelector[k].pattern)) } }

\* the automatic discovery of the one attempt has accepted two or more
\* configurations, their projects are registered, and a handler that
\* awaited init() has routed a document
DiscoveredMany ==
  /\ Len(attempts) = 1
  /\ attempts[1].pc = "done"
  /\ Len(attempts[1].folders) >= 2
  /\ document # <<>>

\* C3, as stated: with two or more discovered projects, a document inside
\* the directory or content globs of project a (of a alone, and not vetoed
\* by a) routes to a, and a document outside every project's directory and
\* content globs routes to no project.
C3_OutsideRoutesToNone ==
  DiscoveredMany =>
    /\ \A i \in 1..Len(projects) :
         ( /\ Inside(projects[i], document)
           /\ ~Vetoed(projects, i, document)
           /\ \A j \in 1..Len(projects) : j # i => ~Inside(projects[j], document) )
           => routed = i
    /\ (\A i \in 1..Len(projects) : ~Inside(projects[i], document))
         => routed = NoProject

\* C3, amended: with two or more discovered projects, (a) a document under
\* the directory of a's configuration that a does not veto routes to a when
\* every selector of another project that matches it has a larger priority
\* ordinal than a's best matching selector; (b) a document that no selector
\* of any project matches routes to no project; (c) a document under the
\* package root of a project that does not veto it routes to some
\* discovered project.
C3_PackageRootRoutes ==
  DiscoveredMany =>
    /\ \A i \in 1..Len(projects) :
         ( /\ UnderDir(document, Dirname(projects[i].configPath))
           /\ ~Vetoed(projects, i, document)
           /\ Matched(projects[i], document) # {}
           /\ \A j \in 1..Len(projects) :
                j # i => \A q \in Matched(projects[j], document) :
                           q > MinOf(Matched(projects[i], document)) )
           => routed = i
    /\ (\A i \in 1..Len(projects) : Matched(projects[i], document) = {})
         => routed = NoProject
    /\ (\E i \in 1..Len(projects) :
          /\ ~Vetoed(projects, i, document)
          /\ UnderDir(document,
                      getPackageRoot(fs, Dirname(projects[i].configPath),
                                     initializeParams.base)))
         => routed # NoProject

C3_Witness ==
  /\ DiscoveredMany
  /\ document = <<"w", "c", "unrelated.html">>
  /\ \A i \in 1..Len(projects) : ~Inside(projects[i], document)
  /\ routed # NoProject

\* <root>/**
RootPattern == Pat(FALSE, Append(initializeParams.base, "**"))

\* the selectors of descriptor d that carry the pattern <root>/**
RootSelectors(d) ==
  { k \in 1..Len(d.documentSelector) : d.documentSelector[k].pattern = RootPattern }

\* d has a selector of priority ROOT_DIRECTORY
HasRootPriority(d) ==
  \E k \in 1..Len(d.documentSelector) : d.documentSelector[k].priority = ROOT_DIRECTORY

\* C4, as stated: the sole descriptor of an automatic discovery has the
\* selector <root>/** at priority ROOT_DIRECTORY, and with two or more
\* descriptors none has a selector of priority ROOT_DIRECTORY.
C4_CatchAllAtRootPriority ==
  \A i \in 1..Len(attempts) :
    LET folders == attempts[i].folders
    IN /\ Len(folders) = 1 =>
            \E k \in RootSelectors(folders[1]) :
              folders[1].documentSelector[k].priority = ROOT_DIRECTORY
       /\ Len(folders) >= 2 => \A x \in 1..Len(folders) : ~HasRootPriority(folders[x])

\* C4, amended: the sole descriptor of an automatic discovery has exactly
\* one selector with the pattern <root>/**; it carries ROOT_DIRECTORY unless
\* a selector of a smaller priority ordinal had the same pattern, and then
\* the descriptor has no selector of priority ROOT_DIRECTORY.  With two or
\* more descriptors none has a selector of priority ROOT_DIRECTORY.
C4_CatchAllPattern ==
  \A i \in 1..Len(attempts) :
    LET folders == attempts[i].folders
    IN /\ Len(folders) = 1 =>
            /\ Cardinality(RootSelectors(folders[1])) = 1
            /\ \A k \in RootSelectors(folders[1]) :
                 \/ folders[1].documentSelector[k].priority = ROOT_DIRECTORY
                 \/ ~HasRootPriority(folders[1])
       /\ Len(folders) >= 2 => \A x \in 1..Len(folders) : ~HasRootPriority(folders[x])

C4_Witness ==
  \E i \in 1..Len(attempts) :
    /\ Len(attempts[i].folders) = 1
    /\ \E k \in RootSelectors(attempts[i].folders[1]) :
         attempts[i].folders[1].documentSelector[k].priority = PACKAGE_DIRECTORY

----------------------------------------------------------------------------
(* Claims about the watch handler and the watch patterns.                  *)

\* every live project's configuration resolves to the version it resolved
\* to when its attempt built the descriptors
LiveVersionsUnchanged ==
  \A k \in 1..Len(projects) :
    MapGet(attempts[projects[k].attempt].resolved, projects[k].configPath, Unresolved)
      = ResolveVersion(fs, projects[k].configPath).twVersion

\* this step is the watch handler classifying a batch
Classifies == classified'.seq # classified.seq

\* C6: a batch of lock-file events that finds every live project at the
\* version it had at discovery causes no restart and is forwarded, as the
\* handler received it, to every live project.
C6_LockFileBatchForwarded ==
  [][ ( /\ Classifies
        /\ \A k \in 1..Len(classified'.changes) : IsPackageFile(classified'.changes[k].file)
        /\ LiveVersionsUnchanged )
      => /\ classified'.outcome = "forward"
         /\ restarts' = restarts
         /\ classified'.forwarded =
              [k \in 1..Len(projects) |->
                 [key |-> projects[k].key, changes |-> classified'.changes]] ]_vars

\* C7: for an event, not a deletion, of a readable and non-excluded
\* stylesheet whose @config directive resolves to a configuration path:
\* without an entry for the stylesheet in the handler's cssFileConfigMap
\* the handler restarts; and when the discovery of the handler's attempt
\* has read the stylesheet with the directive it has now, it does not.
C7_StylesheetEdit ==
  [][ \A file \in {CssA} :
        LET att == attempts[classified'.handler]
        IN ( /\ Classifies
             /\ classified'.changes \in {<<[file |-> file, type |-> "Changed"]>>,
                                         <<[file |-> file, type |-> "Created"]>>}
             /\ ~Ignored(file, att.ignore)
             /\ Readable(fs, file)
             /\ getConfigFileFromCssFile(fs, file) # NoConfig )
           => /\ ~MapHas(att.cssFiles, file) => classified'.outcome = "restart"
              /\ <<file, fs.directive[file]>> \in att.seen
                   => classified'.outcome # "restart" ]_vars

\* C8: no backend is asked for the same glob pattern twice between two
\* restarts.
C8_NoPatternRequestedTwice ==
  \A x, y \in 1..Len(requested) :
    (x # y /\ requested[x].attempt = requested[y].attempt)
      => requested[x].pattern # requested[y].pattern

----------------------------------------------------------------------------
(* Claims about the lifecycle.                                             *)

\* the config map has a value that is neither a string nor an array of
\* strings
BadConfigMap(cf) ==
  /\ cf.kind = "map"
  /\ \E e \in 1..Len(cf.entries) :
       LET v == cf.entries[e].value
       IN /\ v.type # "string"
          /\ ~(v.type = "array" /\ \A j \in 1..Len(v.items) : v.items[j].str)

\* C5: with a config map one of whose values is neither a string nor an
\* array of strings, every attempt that has read the settings has ended,
\* normally, and nothing was created: no project, no project key, no watch
\* backend, no disposable.
C5_InvalidMapAborts ==
  BadConfigMap(settings.configFile) =>
    /\ projects = <<>>
    /\ projectCounter = 0
    /\ backends = {}
    /\ disposables = <<>>
    /\ \A i \in 1..Len(attempts) :
         /\ attempts[i].pc \in {"settings", "done"}
         /\ attempts[i].pc = "done" => attempts[i].outcome \in {"invalid", "noBase"}
         /\ attempts[i].folders = <<>>
         /\ attempts[i].creating = {}

C5_Witness ==
  /\ BadConfigMap(settings.configFile)
  /\ \E c \in callers : c.done /\ attempts[c.awaits].outcome = "invalid"

\* C9: the calls of init() made after the same number of restarts await
\* the same attempt, and _init has run once for the first init() and once
\* per restart().
C9_SingleFlight ==
  /\ \A c, d \in callers : c.restarts = d.restarts => c.awaits = d.awaits
  /\ Len(attempts) = (IF callers = {} THEN 0 ELSE 1) + restarts

C9_Witness ==
  \E c, d \in callers : c.awaits = d.awaits /\ c.done /\ ~d.done

\* C10: a call of init() made after r restarts awaits the attempt the r-th
\* restart started (the first attempt for r = 0), and a call returns only
\* with the attempt it awaits, superseded or not.
C10_SupersededAttempt ==
  \A c \in callers :
    /\ c.awaits = c.restarts + 1
    /\ c.done => attempts[c.awaits].pc = "done"

C10_Witness ==
  \E c, d \in callers :
    /\ attempts[c.awaits].superseded
    /\ c.done
    /\ d.awaits > c.awaits
    /\ d.restarts > c.restarts

----------------------------------------------------------------------------
(* Claims about the teardown and the capability registrations.             *)

\* the steps of log that are among steps, in the order of log
Only(log, steps) ==
  LET In(e) == \E k \in 1..Len(steps) : steps[k] = e IN SelectSeq(log, In)

Has(log, e) == \E k \in 1..Len(log) : log[k] = e

\* a teardown that had no registration to clear skips that step
Expected(steps) ==
  IF ~Has(teardown, "registrationsCleared")
    THEN LET Other(e) == e # "registrationsCleared" IN SelectSeq(steps, Other)
    ELSE steps

ClaimedOrder ==
  << "projectsDestroyed", "projectsDisposed", "registryCleared",
     "registrationsCleared", "diagnosticsCleared", "watchedCleared", "init" >>

CodeOrder ==
  << "projectsDestroyed", "projectsDisposed", "registryCleared",
     "diagnosticsCleared", "registrationsCleared", "disposablesDisposed",
     "watchedCleared", "init" >>

\* C11 as stated: every restart notifies, disposes of the projects, clears
\* the registry, clears the pending capability registration, clears the
\* diagnostics of the open documents, clears the watch entries and starts
\* the next attempt, in this order.
C11_ClaimedTeardownOrder ==
  teardown # <<>> => Only(teardown, ClaimedOrder) = Expected(ClaimedOrder)

\* C11, amended: every restart notifies, disposes of the projects, clears
\* the registry, clears the diagnostics of the open documents, then clears
\* the pending capability registration, disposes of the disposables, clears
\* the watch entries and starts the next attempt, in this order.
C11_TeardownOrder ==
  teardown # <<>> => teardown = Expected(CodeOrder)

\* a restart with an open document and a registration to clear
C11_Witness ==
  /\ Has(teardown, "registrationsCleared")
  /\ Has(teardown, "diagnosticsCleared")
  /\ document # <<>>
  /\ Len(attempts) = 2

\* the registrations the client holds or is about to hold
Outstanding == {r \in 1..Len(bulk) : bulk[r].status # "disposed"}

\* C12: when the client supports dynamic registration, at most one bulk
\* capability registration is outstanding (sent to the client and not yet
\* disposed of) at any moment.
C12_OneOutstanding ==
  initializeParams.dynamic => Cardinality(Outstanding) <= 1

NoDuplicates(xs) == \A a, b \in 1..Len(xs) : a # b => xs[a] # xs[b]

SetOf(xs) == {xs[k] : k \in 1..Len(xs)}

\* the characters the separators of a registration end with
SeparatorChars(seps) == {LastChar(seps[k].chars) : k \in {j \in 1..Len(seps) : seps[j].str}}

\* C20: the completion trigger characters of every bulk registration are
\* the base characters and the separator character of each live project,
\* each listed once.
C20_TriggerCharacters ==
  \A r \in 1..Len(bulk) :
    /\ NoDuplicates(bulk[r].triggerCharacters)
    /\ SetOf(bulk[r].triggerCharacters)
         = SetOf(TRIGGER_CHARACTERS) \cup SeparatorChars(bulk[r].separators)

\* C13: sortSelection answers 'no-project' exactly when the document routes
\* to no project, 'unknown' when the routed project throws while sorting,
\* and the sorted class lists otherwise; getProject answers a version only
\* when the document routes to a project that is enabled, and null in
\* every other case.
C13_CustomRequests ==
  LET p == getProject(projects, response.document)
      on == response.enabled /\ response.state.loaded /\ response.state.enabled
  IN /\ response.method = "sortSelection" =>
          /\ response.result = "no-project" <=> p = NoProject
          /\ p # NoProject /\ response.throws => response.result = "unknown"
          /\ p # NoProject /\ ~response.throws => response.result = "classLists"
     /\ response.method = "getProject" =>
          /\ response.result = "version" => p # NoProject /\ on
          /\ ~(p # NoProject /\ on) => response.result = "null"
          /\ response.result \in {"version", "null"}

\* the routed project throws while sorting
C13_Witness ==
  /\ response.method = "sortSelection"
  /\ getProject(projects, response.document) # NoProject
  /\ response.throws
  /\ response.result = "unknown"

----------------------------------------------------------------------------
(* More claims about automatic discovery and about the attempts.           *)

\* the configuration files the discovery loop accepts on their own
AcceptableConfigs ==
  { c \in fs.files :
      /\ IsConfigFile(c)
      /\ IsTsOrMjs(c) => Gte(ResolveVersion(fs, c).twVersion, V330) }

\* C14: a failure on one candidate file of automatic discovery (an
\* unreadable stylesheet, a directive that does not parse, a version that
\* does not resolve, a configuration that does not load) skips only that
\* file: the attempt completes and every other acceptable configuration
\* becomes a project descriptor.
C14_FailureSkipsOnlyThatFile ==
  \A i \in 1..Len(attempts) :
    attempts[i].pc \notin {"settings", "glob"} =>
      /\ attempts[i].outcome # "rejected"
      /\ \A c \in AcceptableConfigs :
           \E k \in 1..Len(attempts[i].folders) : attempts[i].folders[k].configPath = c

\* the executions of _init that have started and not finished
InFlight == {i \in 1..Len(attempts) : attempts[i].pc # "done"}

\* C15: at every moment at most one execution of _init is in flight.
C15_OneInFlight == Cardinality(InFlight) <= 1

\* the attempts that have a project in the registry
Owners == {projects[k].attempt : k \in 1..Len(projects)}

\* C16: once an attempt and the attempt that superseded it have both
\* finished, the registry holds the projects of one attempt only.
C16_LastWriteWins ==
  InFlight = {} => Cardinality(Owners) <= 1

----------------------------------------------------------------------------
(* More claims about the watch handler.                                    *)

\* the change invalidates the topology for the handler of attempt att: it is
\* not excluded, and it creates a configuration file or deletes the
\* configuration of a live project
Invalidates(change, att) ==
  /\ ~Ignored(change.file, att.ignore)
  /\ \/ IsConfigFile(change.file) /\ change.type = "Created"
     \/ /\ change.type = "Deleted"
        /\ \E k \in 1..Len(projects) : projects[k].configPath = change.file

\* C17: a batch with a change that invalidates the topology ends in
\* restart(), whatever precedes or follows the change in the batch.
C17_InvalidatingBatchRestarts ==
  [][ ( /\ Classifies
        /\ \E k \in 1..Len(classified'.changes) :
             Invalidates(classified'.changes[k], attempts[classified'.handler]) )
      => /\ classified'.outcome = "restart"
         /\ restarts' = restarts + 1 ]_vars

\* C18: a classified batch ends either in one restart() with no project
\* receiving an event, or in no restart with every live project receiving
\* the whole batch once.
C18_RestartOrForward ==
  [][ Classifies
      => \/ /\ classified'.outcome = "restart"
            /\ restarts' = restarts + 1
            /\ classified'.forwarded = <<>>
         \/ /\ classified'.outcome = "forward"
            /\ restarts' = restarts
            /\ classified'.forwarded =
                 [k \in 1..Len(projects) |->
                    [key |-> projects[k].key, changes |-> classified'.changes]] ]_vars

----------------------------------------------------------------------------
(* The descriptors of an attempt.                                          *)

DistinctPatterns(ds) == \A a, b \in 1..Len(ds) : a # b => ds[a].pattern # ds[b].pattern

AscendingPriority(ds) == \A a, b \in 1..Len(ds) : a < b => ds[a].priority <= ds[b].priority

\* C19: in automatic and in explicit mode, the document selector of every
\* descriptor of an attempt has no two selectors with the same pattern and
\* is sorted ascending by priority.
C19_SelectorsDistinctAndSorted ==
  \A i \in 1..Len(attempts) :
    \A k \in 1..Len(attempts[i].folders) :
      /\ DistinctPatterns(attempts[i].folders[k].documentSelector)
      /\ AscendingPriority(attempts[i].folders[k].documentSelector)

----------------------------------------------------------------------------
(* More claims about the router, the backends and the keys.                *)

\* C21: a negated selector only vetoes: a project with a configPath that
\* getProject returns for a document has a non-negated selector that
\* matches the document.
C21_NegatedOnlyVetoes ==
  (document # <<>> /\ routed # NoProject /\ projects[routed].configPath # NoConfig)
    => MatchingPriorities(projects, routed, document) # {}

\* the backend subscriptions that are up (their start has been awaited) and
\* have not been disposed of
LiveBackends ==
  {b \in backends : attempts[b.attempt].pc \in {"projects", "done"}}

\* C22: at most one watch backend subscription is live at any time, so
\* every subscription of an earlier attempt has been disposed of.
C22_OneLiveBackend == Cardinality(LiveBackends) <= 1

\* the projects without a configPath
Configless(reg) == {i \in 1..Len(reg) : reg[i].configPath = NoConfig}

\* C23: when no project with a configPath has a matching selector for the
\* document, getProject returns the first registered project without a
\* configPath, or nothing when there is none; and it returns no project
\* without a configPath while a project with one matches.
C23_FallbackOnMiss ==
  document # <<>> =>
    IF Candidates(projects, document) = {}
      THEN routed = (IF Configless(projects) = {} THEN NoProject
                     ELSE MinOf(Configless(projects)))
      ELSE routed \notin Configless(projects)

\* the keys of the addProject calls that await createProjectService
PendingKeys == UNION {{c.key : c \in attempts[i].creating} : i \in 1..Len(attempts)}

LiveKeys == {projects[k].key : k \in 1..Len(projects)}

\* the keys of the projects a restart has destroyed: taken, and neither
\* pending nor in the registry
DestroyedKeys == (0..(projectCounter - 1)) \ (PendingKeys \cup LiveKeys)

\* no key is held twice, by registered projects or pending addProject calls
UniqueKeys ==
  /\ \A a, b \in 1..Len(projects) : a # b => projects[a].key # projects[b].key
  /\ \A i, j \in 1..Len(attempts) :
       \A c \in attempts[i].creating, d \in attempts[j].creating :
         c.key = d.key => (i = j /\ c = d)
  /\ PendingKeys \cap LiveKeys = {}
  /\ PendingKeys \cup LiveKeys \subseteq 0..(projectCounter - 1)

\* this step answers a completion-resolve request
Resolves == response' # response /\ response'.method = "completionResolve"

\* C24: no two projects ever hold the same key, the counter never goes
\* back, and a completion-resolve request that carries the key of a
\* destroyed project is answered null.
C24_KeysUnique ==
  [][ /\ UniqueKeys'
      /\ projectCounter' >= projectCounter
      /\ (Resolves /\ response'.key \in DestroyedKeys) => response'.result = "null"
      /\ (Resolves /\ response'.result # "null") => response'.from = response'.key
    ]_vars

\* a request with the key of a destroyed project is answered null while a
\* project created later is in the registry
C24_Witness ==
  /\ response.method = "completionResolve"
  /\ response.key \in DestroyedKeys
  /\ response.result = "null"
  /\ projects # <<>>
  /\ restarts > 0

----------------------------------------------------------------------------
(* Progress.                                                               *)

\* the attempt of this.initPromise has completed
LatestDone == initPromise # 0 /\ attempts[initPromise].pc = "done"

\* C25: when the asynchronous steps are fair, the most recent attempt
\* eventually completes and stays completed once the restart triggers have
\* stopped, and no asynchronous step of an attempt starts a further attempt
\* or a restart.
C25_EventuallyQuiescent ==
  /\ <>[]LatestDone
  /\ [][ (\E i \in 1..Len(attempts) : AsyncStep(i))
           => /\ Len(attempts') = Len(attempts)
              /\ restarts' = restarts
              /\ initPromise' = initPromise ]_vars

\* the attempt started by a restart has completed with its project
C25_Witness ==
  /\ restarts > 0
  /\ LatestDone
  /\ attempts[initPromise].outcome = "ok"
  /\ \E k \in 1..Len(projects) : projects[k].attempt = initPromise

====
